---------------------------- MODULE Spec2Model ----------------------------
(***************************************************************************)
(* A model of rag-app.py: the local file ledger (store_config.json), the   *)
(* polling of long-running operations, the one-file ingestion pipeline     *)
(* upload_and_import_file, the batch upload loop and the store deletion    *)
(* buttons.                                                                *)
(***************************************************************************)
EXTENDS Integers, Sequences, FiniteSets, TLC

(***************************************************************************)
(* Bounds of the model and constants of the program.                       *)
(***************************************************************************)
\* longest list handed to save_file_list by the ledger harness
MaxListLen == 2
\* most files selected in the uploader for one batch
MaxFiles == 2
\* most calls of upload_and_import_file in one run of the model
MaxInvocations == 3
\* most polls a remote operation stays pending in the batch specification
MaxPending == 1
\* most calls of upload_and_import_file made on its own
MaxCalls == 2
\* most seconds that pass between two readings of the clock, sleeps aside
MaxDrift == 1
\* most turns of the conversation log
MaxTurns == 3
\* most upload batches of a chat session
MaxChatUploads == 2
\* most pages of a scanned PDF
MaxPages == 3
\* most sheets of a workbook
MaxSheets == 3
\* most data rows of a sheet
MaxRows == 2
\* wait_for_operation(client, operation, timeout=300)
DefaultTimeout == 300
\* time.sleep(3) in wait_for_operation
PollInterval == 3
\* the budget the TimeoutError message names: "(5분)", five minutes
MessageBudget == 300
\* len(text.strip()) < 100 in is_scanned_pdf
ScanThreshold == 100

None == "None"
\* CONFIG_FILE before it was ever written: os.path.exists(CONFIG_FILE) is false
NoFile == [exists |-> FALSE, text |-> <<>>]

StoreIds == {"s1", "s2"}
UploadNames == {"a.pdf", "b.xlsx", "c.txt"}
LedgerNames == {"a.pdf", "c.txt"}

(***************************************************************************)
(* Python dict, kept as the sequence of its <<key, value>> items in        *)
(* insertion order.                                                        *)
(***************************************************************************)
DictHas(d, k) == \E i \in 1..Len(d) : d[i][1] = k

DictIndex(d, k) == CHOOSE i \in 1..Len(d) : d[i][1] = k

\* d.get(k, default)
DictGet(d, k, default) == IF DictHas(d, k) THEN d[DictIndex(d, k)][2] ELSE default

\* d[k] = v
DictSet(d, k, v) ==
    IF DictHas(d, k) THEN [d EXCEPT ![DictIndex(d, k)] = <<k, v>>]
    ELSE Append(d, <<k, v>>)

\* del d[k]
DictDel(d, k) ==
    LET i == DictIndex(d, k)
    IN  SubSeq(d, 1, i - 1) \o SubSeq(d, i + 1, Len(d))

(***************************************************************************)
(* json.dump / json.load of the ledger document: the text of the file is   *)
(* the sequence of its JSON tokens.                                        *)
(***************************************************************************)
Tok(t) == [t |-> t, v |-> ""]

StrTok(s) == [t |-> "str", v |-> s]

RECURSIVE DumpStrings(_)
DumpStrings(l) ==
    IF l = <<>> THEN <<>>
    ELSE IF Len(l) = 1 THEN <<StrTok(l[1])>>
    ELSE <<StrTok(l[1]), Tok(",")>> \o DumpStrings(Tail(l))

DumpList(l) == <<Tok("[")>> \o DumpStrings(l) \o <<Tok("]")>>

RECURSIVE DumpItems(_)
DumpItems(d) ==
    IF d = <<>> THEN <<>>
    ELSE LET item == <<StrTok(d[1][1]), Tok(":")>> \o DumpList(d[1][2])
         IN  IF Len(d) = 1 THEN item
             ELSE item \o <<Tok(",")>> \o DumpItems(Tail(d))

\* with open(CONFIG_FILE, "w") as f: json.dump(config, f, ...)
json_dump(config) ==
    [exists |-> TRUE, text |-> <<Tok("{")>> \o DumpItems(config) \o <<Tok("}")>>]

\* the strings of a JSON array, read from token i on, up to its "]"
RECURSIVE ParseStrings(_, _, _)
ParseStrings(toks, i, acc) ==
    IF toks[i].t = "]" THEN [val |-> acc, next |-> i + 1]
    ELSE IF toks[i].t = "," THEN ParseStrings(toks, i + 1, acc)
    ELSE ParseStrings(toks, i + 1, Append(acc, toks[i].v))

\* the items of a JSON object, read from token i on, up to its "}"
RECURSIVE ParseItems(_, _, _)
ParseItems(toks, i, acc) ==
    IF toks[i].t = "}" THEN acc
    ELSE IF toks[i].t = "," THEN ParseItems(toks, i + 1, acc)
    ELSE LET r == ParseStrings(toks, i + 3, <<>>)
         IN  ParseItems(toks, r.next, DictSet(acc, toks[i].v, r.val))

\* with open(CONFIG_FILE, "r") as f: json.load(f)
json_load(file) == ParseItems(file.text, 2, <<>>)

(***************************************************************************)
(* The ledger functions, as functions of the content of CONFIG_FILE.       *)
(***************************************************************************)
load_config(file) == IF file.exists THEN json_load(file) ELSE <<>>

save_file_list_append(file, store_id, files) ==
    LET config == load_config(file)
    IN  json_dump(DictSet(config, store_id, DictGet(config, store_id, <<>>) \o files))

save_file_list(file, store_id, files) ==
    json_dump(DictSet(load_config(file), store_id, files))

get_file_list(file, store_id) == DictGet(load_config(file), store_id, <<>>)

\* a deletion that writes back an empty ledger
delete_file_list_clear(file, store_id) ==
    LET config == load_config(file)
    IN  IF DictHas(config, store_id) THEN json_dump(<<>>)
        ELSE file

delete_file_list(file, store_id) ==
    LET config == load_config(file)
    IN  IF DictHas(config, store_id) THEN json_dump(DictDel(config, store_id))
        ELSE file


(***************************************************************************)
(* The state.                                                              *)
(***************************************************************************)
VARIABLES
    configFile,         \* content of CONFIG_FILE (store_config.json), or NoFile
    got,                \* what the last get_file_list call returned
    disk,               \* the staged blobs that exist on disk
    remoteStores,       \* client.file_search_stores.list()
    createdStores,      \* every store id the remote service has handed out
    current_store,      \* st.session_state.current_store
    preprocess_method,  \* the sidebar radio "변환 엔진"
    batch_pc,           \* position of the upload button's handler
    uploaded_files,     \* the files selected in the uploader
    idx,                \* 1-based index of the batch loop
    success_files,
    failed_files,
    store_name,
    pc,                 \* position of upload_and_import_file
    uploaded_file,
    tmp_path,
    md_path,
    converted_content,
    display_name,
    upload_path,
    mime_type,
    file_obj,
    import_operation,
    result,             \* how upload_and_import_file ended
    nInvocations,       \* calls of upload_and_import_file so far
    wfo_pc,             \* position of wait_for_operation
    timeout,
    elapsed,            \* time.time() - start_time at the last reading
    operation,
    raised,             \* the exception wait_for_operation raised
    slept,              \* wait_for_operation has slept
    fetched,            \* wait_for_operation has re-fetched the operation
    hist,               \* bookkeeping of the current pipeline call and batch
    ev,                 \* the last handler or call that completed
    history,            \* st.session_state.history
    xls,                \* the workbook pd.read_excel reads, sheet by sheet
    text_output,        \* what convert_excel_to_markdown returned
    images,             \* the pages convert_from_path rendered
    page,               \* 1-based index of the loop of convert_with_gemini_vision
    all_content,
    vision_pc,          \* position of convert_with_gemini_vision
    vision_out,         \* what convert_with_gemini_vision returned
    vision_log          \* the requests sent to the vision model and their answers

ledgerVars == <<configFile, got>>

storeVars == <<remoteStores, createdStores, current_store, preprocess_method>>

batchVars == <<batch_pc, uploaded_files, idx, success_files, failed_files, store_name>>

pipeVars == <<pc, uploaded_file, tmp_path, md_path, converted_content, display_name,
              upload_path, mime_type, file_obj, import_operation, result,
              nInvocations, disk>>

waitVars == <<wfo_pc, timeout, elapsed, operation, raised, slept, fetched>>

chatVars == <<history>>

convVars == <<xls, text_output, images, page, all_content, vision_pc, vision_out,
              vision_log>>

vars == <<ledgerVars, storeVars, batchVars, pipeVars, waitVars, hist, ev, chatVars,
          convVars>>

NoPath == [stem |-> 0, suffix |-> ""]

NoOperation == [name |-> "", done |-> FALSE, error |-> FALSE]

NoResult == [kind |-> "none", ok |-> FALSE, value |-> ""]

NoError == [type |-> "", budget |-> 0]

NoProbe == [ran |-> FALSE, raised |-> FALSE, len |-> 0]

\* staged: the blobs the current pipeline call created; calls: its external
\* calls, in order; failed_step: the step of it that failed; converter, probe:
\* the converter it ran and what the PDF probe found; before, convFailures,
\* otherFailures: the ledger list at the start of the current batch and the
\* failures counted in it
\* convert_excel_to_markdown has not returned
NoText == [ret |-> "pending", lines |-> <<>>]

\* convert_with_gemini_vision has not returned
NoVisionOut == [ret |-> "pending", text |-> <<>>]

NoHist == [staged |-> {}, calls |-> <<>>, failed_step |-> None, converter |-> None,
           probe |-> NoProbe, before |-> <<>>, convFailures |-> 0, otherFailures |-> 0]

Methods == {"pymupdf4llm", "Docling"}

InitLedger == configFile = NoFile /\ got = <<>>

InitStores ==
    /\ remoteStores = {}
    /\ createdStores = {}
    /\ current_store = None
    /\ preprocess_method = "pymupdf4llm"

InitBatch ==
    /\ batch_pc = "idle"
    /\ uploaded_files = <<>>
    /\ idx = 1
    /\ success_files = <<>>
    /\ failed_files = <<>>
    /\ store_name = None

InitPipe ==
    /\ pc = "idle"
    /\ uploaded_file = None
    /\ tmp_path = NoPath
    /\ md_path = NoPath
    /\ converted_content = None
    /\ display_name = None
    /\ upload_path = NoPath
    /\ mime_type = None
    /\ file_obj = None
    /\ import_operation = NoOperation
    /\ result = NoResult
    /\ nInvocations = 0
    /\ disk = {}

InitWaitIdle ==
    /\ wfo_pc = "idle"
    /\ timeout = DefaultTimeout
    /\ elapsed = 0
    /\ operation = NoOperation
    /\ raised = NoError
    /\ slept = FALSE
    /\ fetched = FALSE

InitChat == history = <<>>

InitExcelIdle ==
    /\ xls = <<>>
    /\ text_output = NoText

InitVisionIdle ==
    /\ images = <<>>
    /\ page = 1
    /\ all_content = <<>>
    /\ vision_pc = "idle"
    /\ vision_out = NoVisionOut
    /\ vision_log = <<>>

Init ==
    /\ InitLedger /\ InitStores /\ InitBatch /\ InitPipe /\ InitWaitIdle
    /\ InitChat /\ InitExcelIdle /\ InitVisionIdle
    /\ hist = NoHist
    /\ ev = [op |-> "start"]

(***************************************************************************)
(* The ledger functions called on their own: any store id, any list.       *)
(***************************************************************************)
RECURSIVE ListsUpTo(_)
ListsUpTo(n) ==
    IF n = 0 THEN {<<>>}
    ELSE LET shorter == ListsUpTo(n - 1)
         IN  shorter \cup {Append(l, x) : l \in shorter, x \in LedgerNames}

LedgerSave(s, files) ==
    /\ configFile' = save_file_list(configFile, s, files)
    /\ ev' = [op |-> "save", store |-> s, files |-> files,
              existed |-> configFile.exists,
              had |-> DictHas(load_config(configFile), s)]
    /\ UNCHANGED <<got, storeVars, batchVars, pipeVars, waitVars, hist>>
    /\ UNCHANGED <<chatVars, convVars>>

LedgerGet(s) ==
    /\ got' = get_file_list(configFile, s)
    /\ ev' = [op |-> "get", store |-> s,
              after |-> IF ev.op = "save" THEN ev ELSE [op |-> ev.op]]
    /\ UNCHANGED <<configFile, storeVars, batchVars, pipeVars, waitVars, hist>>
    /\ UNCHANGED <<chatVars, convVars>>

LedgerDelete(s) ==
    /\ configFile' = delete_file_list(configFile, s)
    /\ ev' = [op |-> "delete_file_list", store |-> s]
    /\ UNCHANGED <<got, storeVars, batchVars, pipeVars, waitVars, hist>>
    /\ UNCHANGED <<chatVars, convVars>>

NextLedger ==
    \/ \E s \in StoreIds, files \in ListsUpTo(MaxListLen) : LedgerSave(s, files)
    \/ \E s \in StoreIds : LedgerGet(s)
    \/ \E s \in StoreIds : LedgerDelete(s)

SpecLedger == Init /\ [][NextLedger]_vars

\* C10: save_file_list(s, L) immediately followed by get_file_list(s) returns
\* exactly L - same elements, same order, duplicates kept - whatever the
\* ledger held before and also when the ledger file did not exist.
LedgerRoundTrip ==
    /\ ev.op = "save" => get_file_list(configFile, ev.store) = ev.files
    /\ (ev.op = "get" /\ ev.after.op = "save" /\ ev.after.store = ev.store)
           => got = ev.after.files

\* a list with a duplicate, stored over an older entry of the store and read back
LedgerRoundTripWitness ==
    /\ ev.op = "get" /\ ev.after.op = "save" /\ ev.after.store = ev.store
    /\ Len(ev.after.files) = 2 /\ ev.after.files[1] = ev.after.files[2]
    /\ ev.after.had
    /\ got = ev.after.files

\* C19: save_file_list(s, L) and delete_file_list(s) change the entry of s
\* alone: every other store keeps its entry, and get_file_list returns for
\* it what it returned before; delete_file_list(s) for a store without an
\* entry leaves the ledger file as it was, absent if it was absent.
LedgerFrame ==
    [][/\ \A t \in StoreIds :
             (ev'.op \in {"save", "delete_file_list"} /\ t # ev'.store) =>
                 /\ get_file_list(configFile', t) = get_file_list(configFile, t)
                 /\ DictHas(load_config(configFile'), t)
                        <=> DictHas(load_config(configFile), t)
       /\ (ev'.op = "delete_file_list"
              /\ ~DictHas(load_config(configFile), ev'.store))
             => configFile' = configFile]_vars

\* the entry of one store was deleted while another store holds a list of
\* two files
LedgerFrameWitness ==
    /\ ev.op = "delete_file_list"
    /\ configFile.exists
    /\ ~DictHas(load_config(configFile), ev.store)
    /\ \E t \in StoreIds \ {ev.store} : Len(get_file_list(configFile, t)) = 2


(***************************************************************************)
(* wait_for_operation(client, operation, timeout).  Time is counted in     *)
(* seconds since start_time; a reading of the clock may find that up to    *)
(* MaxDrift seconds have passed since the last one.                        *)
(***************************************************************************)
\* what client.operations.get may report: still pending, done, done with an error
OperationStates(name) ==
    {[name |-> name, done |-> d, error |-> e] : d \in BOOLEAN, e \in BOOLEAN}
        \ {[name |-> name, done |-> FALSE, error |-> TRUE]}

\* start_time = time.time()
WfoEnter(op, t) ==
    /\ wfo_pc' = "test"
    /\ operation' = op
    /\ timeout' = t
    /\ elapsed' = 0
    /\ raised' = NoError
    /\ slept' = FALSE
    /\ fetched' = FALSE

\* a loop that sleeps and re-fetches before it looks at operation.done
WfoTestSleepFirst ==
    /\ wfo_pc = "test"
    /\ wfo_pc' = IF operation.done /\ fetched THEN "returned" ELSE "check"
    /\ UNCHANGED <<timeout, elapsed, operation, raised, slept, fetched>>

\* while not operation.done: ... return operation
WfoTest ==
    /\ wfo_pc = "test"
    /\ wfo_pc' = IF operation.done THEN "returned" ELSE "check"
    /\ UNCHANGED <<timeout, elapsed, operation, raised, slept, fetched>>

\* a timeout that ends the wait without raising
WfoCheckNoRaise ==
    /\ wfo_pc = "check"
    /\ \E d \in 0..MaxDrift :
        /\ elapsed' = elapsed + d
        /\ wfo_pc' = IF elapsed' > timeout THEN "returned" ELSE "sleep"
    /\ UNCHANGED <<timeout, operation, raised, slept, fetched>>

\* if time.time() - start_time > timeout: raise TimeoutError("작업 시간 초과 (5분)")
WfoCheck ==
    /\ wfo_pc = "check"
    /\ \E d \in 0..MaxDrift :
        /\ elapsed' = elapsed + d
        /\ IF elapsed' > timeout
           THEN /\ wfo_pc' = "raised"
                /\ raised' = [type |-> "TimeoutError", budget |-> MessageBudget]
           ELSE /\ wfo_pc' = "sleep"
                /\ raised' = raised
    /\ UNCHANGED <<timeout, operation, slept, fetched>>

\* time.sleep(3)
WfoSleep ==
    /\ wfo_pc = "sleep"
    /\ wfo_pc' = "get"
    /\ elapsed' = elapsed + PollInterval
    /\ slept' = TRUE
    /\ UNCHANGED <<timeout, operation, raised, fetched>>

\* operation = client.operations.get(operation): the call answers, or fails
WfoGet ==
    /\ wfo_pc = "get"
    /\ fetched' = TRUE
    /\ \/ /\ operation' \in OperationStates(operation.name)
          /\ wfo_pc' = "test"
          /\ raised' = raised
       \/ /\ wfo_pc' = "raised"
          /\ raised' = [type |-> "Exception", budget |-> 0]
          /\ operation' = operation
    /\ UNCHANGED <<timeout, elapsed, slept>>

WfoStep == WfoTest \/ WfoCheck \/ WfoSleep \/ WfoGet

(***************************************************************************)
(* wait_for_operation called on its own, with any timeout and an operation *)
(* that is pending or done at the call.                                    *)
(***************************************************************************)
Timeouts == {0, 1, PollInterval, 2 * PollInterval + 1, DefaultTimeout}

InitWait ==
    /\ InitLedger /\ InitStores /\ InitBatch /\ InitPipe
    /\ InitChat /\ InitExcelIdle /\ InitVisionIdle
    /\ hist = NoHist
    /\ wfo_pc = "test"
    /\ operation \in OperationStates("operations/1")
    /\ timeout \in Timeouts
    /\ elapsed = 0
    /\ raised = NoError
    /\ slept = FALSE
    /\ fetched = FALSE
    /\ ev = [op |-> "wait_for_operation", done_at_call |-> operation.done]

NextWait ==
    /\ WfoStep
    /\ UNCHANGED <<ledgerVars, storeVars, batchVars, pipeVars, hist, ev>>
    /\ UNCHANGED <<chatVars, convVars>>

SpecWait == InitWait /\ [][NextWait]_vars

\* C3: when the operation never reports done, wait_for_operation ends by
\* raising TimeoutError, and the message of that error names the timeout
\* that was configured for the call.
TimeoutNamesConfiguredBudget ==
    (wfo_pc = "raised" /\ raised.type = "TimeoutError") => raised.budget = timeout

Suffix(name) ==
    CASE name = "a.pdf" -> ".pdf"
      [] name = "b.xlsx" -> ".xlsx"
      [] name = "c.txt" -> ".txt"
      [] name = "d.xls" -> ".xls"
      [] name = "e.xlsm" -> ".xlsm"
      [] name = "f.md" -> ".md"
      [] name = "g.csv" -> ".csv"
      [] name = "H.DOCX" -> ".docx"
      [] name = "i.exe" -> ".exe"
      [] OTHER -> ""

\* what a converter returns: markdown text, an empty text, or None (it failed)
ConvOutcomes == {"markdown", "", None}

\* if converted_content:
Truthy(content) == content # None /\ content # ""

\* what the probe of the first three pages finds: it raises, or the length of
\* the stripped text
ProbeOutcomes ==
    {[ran |-> TRUE, raised |-> TRUE, len |-> 0]}
        \cup {[ran |-> TRUE, raised |-> FALSE, len |-> n] :
                 n \in {0, ScanThreshold - 1, ScanThreshold}}

\* a classifier that counts a text of exactly the threshold length as scanned
is_scanned_pdf_inclusive(probe) ==
    IF probe.raised THEN FALSE ELSE probe.len <= ScanThreshold

\* a classifier that fails closed: an unreadable PDF counts as scanned
is_scanned_pdf_failclosed(probe) ==
    IF probe.raised THEN TRUE ELSE probe.len < ScanThreshold

is_scanned_pdf(probe) == IF probe.raised THEN FALSE ELSE probe.len < ScanThreshold

\* the temporary file of the n-th call; tempfile's stems hold no dot
TmpPath(n, suffix) == [stem |-> n, suffix |-> suffix]

\* tmp_path.replace(suffix, ".md")
MdPath(path) == [path EXCEPT !.suffix = ".md"]

\* finally: os.remove of tmp_path and of md_path, where they exist
Finally(d, tp, mp) == (d \ {tp}) \ (IF mp # NoPath THEN {mp} ELSE {})

\* the locals of upload_and_import_file and of wait_for_operation outside a call
PipeLocalsFree ==
    /\ tmp_path' = NoPath
    /\ md_path' = NoPath
    /\ converted_content' = None
    /\ display_name' = None
    /\ upload_path' = NoPath
    /\ mime_type' = None
    /\ file_obj' = None
    /\ import_operation' = NoOperation
    /\ result' = NoResult
    /\ wfo_pc' = "idle"
    /\ timeout' = DefaultTimeout
    /\ elapsed' = 0
    /\ operation' = NoOperation
    /\ raised' = NoError
    /\ slept' = FALSE
    /\ fetched' = FALSE

\* the call: the parameters are bound, nothing has run yet
PipeEnter(name) ==
    /\ pc' = "stage"
    /\ uploaded_file' = name
    /\ nInvocations' = nInvocations + 1
    /\ PipeLocalsFree
    /\ UNCHANGED disk

\* except Exception as e: return False, str(e) - and the finally clause
PipeFail(step, reason, d, mp, call) ==
    /\ pc' = "ended"
    /\ result' = [kind |-> "return", ok |-> FALSE, value |-> reason]
    /\ disk' = Finally(d, tmp_path, mp)
    /\ hist' = [hist EXCEPT !.failed_step = step,
                            !.staged = IF mp # NoPath /\ mp \in d THEN @ \cup {mp} ELSE @,
                            !.calls = IF call # None THEN Append(@, call) ELSE @]

\* lines 180-188: the temporary file is created and written before the try
Stage ==
    /\ pc = "stage"
    /\ LET path == TmpPath(nInvocations, Suffix(uploaded_file))
       IN  \/ /\ disk' = disk \cup {path}
              /\ tmp_path' = path
              /\ display_name' = uploaded_file
              /\ pc' = "convert"
              /\ hist' = [hist EXCEPT !.staged = @ \cup {path}]
              /\ UNCHANGED result
           \/ \* tempfile.NamedTemporaryFile raises: no file, the error leaves the call
              /\ pc' = "ended"
              /\ result' = [kind |-> "raise", ok |-> FALSE, value |-> "OSError"]
              /\ hist' = [hist EXCEPT !.failed_step = "stage"]
              /\ UNCHANGED <<disk, tmp_path, display_name>>
           \/ \* tmp.write raises: the file exists, the error leaves the call
              /\ pc' = "ended"
              /\ result' = [kind |-> "raise", ok |-> FALSE, value |-> "OSError"]
              /\ disk' = disk \cup {path}
              /\ hist' = [hist EXCEPT !.failed_step = "stage", !.staged = @ \cup {path}]
              /\ UNCHANGED <<tmp_path, display_name>>
    /\ UNCHANGED <<uploaded_file, md_path, converted_content, upload_path, mime_type,
                   file_obj, import_operation, nInvocations>>
    /\ UNCHANGED <<ledgerVars, storeVars, batchVars, waitVars, ev>>
    /\ UNCHANGED <<chatVars, convVars>>

\* lines 190-210: the converter is chosen and run; converters catch their errors.
\* The annotations stand for " (표 최적화)", " (Vision 추출)" and " (마크다운 변환)".
Convert ==
    /\ pc = "convert"
    /\ pc' = "write_md"
    /\ LET suffix == Suffix(uploaded_file)
       IN  IF suffix \in {".xlsx", ".xls", ".xlsm"}
           THEN \E c \in ConvOutcomes :
                   /\ converted_content' = c
                   /\ display_name' = uploaded_file \o " (table-optimized)"
                   /\ hist' = [hist EXCEPT !.converter = "excel"]
           ELSE IF suffix = ".pdf"
           THEN \E p \in ProbeOutcomes, c \in ConvOutcomes :
                   /\ converted_content' = c
                   /\ IF is_scanned_pdf(p)
                      THEN /\ display_name' = uploaded_file \o " (vision-extracted)"
                           /\ hist' = [hist EXCEPT !.converter = "vision", !.probe = p]
                      ELSE /\ display_name' = uploaded_file \o " (markdown-converted)"
                           /\ hist' = [hist EXCEPT
                                  !.converter = IF preprocess_method = "Docling"
                                                THEN "docling" ELSE "pymupdf4llm",
                                  !.probe = p]
           ELSE UNCHANGED <<converted_content, display_name, hist>>
    /\ UNCHANGED <<uploaded_file, tmp_path, md_path, upload_path, mime_type, file_obj,
                   import_operation, result, nInvocations, disk>>
    /\ UNCHANGED <<ledgerVars, storeVars, batchVars, waitVars, ev>>
    /\ UNCHANGED <<chatVars, convVars>>

\* lines 213-221: the converted text is written to the .md blob
WriteMd ==
    /\ pc = "write_md"
    /\ IF Truthy(converted_content)
       THEN LET md == MdPath(tmp_path)
            IN  /\ md_path' = md
                /\ \/ /\ disk' = disk \cup {md}
                      /\ upload_path' = md
                      /\ mime_type' = "text/markdown"
                      /\ pc' = "upload"
                      /\ hist' = [hist EXCEPT !.staged = @ \cup {md}]
                      /\ UNCHANGED result
                   \/ \* open(md_path, "w") raises
                      /\ PipeFail("write_md", "OSError", disk, md, None)
                      /\ UNCHANGED <<upload_path, mime_type>>
                   \/ \* f.write raises
                      /\ PipeFail("write_md", "OSError", disk \cup {md}, md, None)
                      /\ UNCHANGED <<upload_path, mime_type>>
       ELSE /\ upload_path' = tmp_path
            /\ mime_type' = "application/octet-stream"
            /\ pc' = "upload"
            /\ UNCHANGED <<md_path, disk, result, hist>>
    /\ UNCHANGED <<uploaded_file, tmp_path, converted_content, display_name, file_obj,
                   import_operation, nInvocations>>
    /\ UNCHANGED <<ledgerVars, storeVars, batchVars, waitVars, ev>>
    /\ UNCHANGED <<chatVars, convVars>>

\* lines 224-230: file_obj = client.files.upload(...)
Upload ==
    /\ pc = "upload"
    /\ \/ /\ file_obj' = "files/1"
          /\ pc' = "delay"
          /\ hist' = [hist EXCEPT !.calls = Append(@, "upload")]
          /\ UNCHANGED <<result, disk>>
       \/ /\ PipeFail("upload", "upload failed", disk, md_path, "upload")
          /\ UNCHANGED file_obj
    /\ UNCHANGED <<uploaded_file, tmp_path, md_path, converted_content, display_name,
                   upload_path, mime_type, import_operation, nInvocations>>
    /\ UNCHANGED <<ledgerVars, storeVars, batchVars, waitVars, ev>>
    /\ UNCHANGED <<chatVars, convVars>>

\* line 231: time.sleep(2)
Delay ==
    /\ pc = "delay"
    /\ pc' = "import"
    /\ hist' = [hist EXCEPT !.calls = Append(@, "delay")]
    /\ UNCHANGED <<uploaded_file, tmp_path, md_path, converted_content, display_name,
                   upload_path, mime_type, file_obj, import_operation, result,
                   nInvocations, disk>>
    /\ UNCHANGED <<ledgerVars, storeVars, batchVars, waitVars, ev>>
    /\ UNCHANGED <<chatVars, convVars>>

\* lines 234-237: import_operation = client.file_search_stores.import_file(...)
Import ==
    /\ pc = "import"
    /\ \/ /\ import_operation' \in OperationStates("operations/1")
          /\ pc' = "wait_call"
          /\ hist' = [hist EXCEPT !.calls = Append(@, "import")]
          /\ UNCHANGED <<result, disk>>
       \/ /\ PipeFail("import", "import failed", disk, md_path, "import")
          /\ UNCHANGED import_operation
    /\ UNCHANGED <<uploaded_file, tmp_path, md_path, converted_content, display_name,
                   upload_path, mime_type, file_obj, nInvocations>>
    /\ UNCHANGED <<ledgerVars, storeVars, batchVars, waitVars, ev>>
    /\ UNCHANGED <<chatVars, convVars>>

\* line 238: wait_for_operation(client, import_operation), the default timeout
WaitCall ==
    /\ pc = "wait_call"
    /\ pc' = "waiting"
    /\ WfoEnter(import_operation, DefaultTimeout)
    /\ hist' = [hist EXCEPT !.calls = Append(@, "poll")]
    /\ UNCHANGED <<uploaded_file, tmp_path, md_path, converted_content, display_name,
                   upload_path, mime_type, file_obj, import_operation, result,
                   nInvocations, disk>>
    /\ UNCHANGED <<ledgerVars, storeVars, batchVars, ev>>
    /\ UNCHANGED <<chatVars, convVars>>

\* wait_for_operation runs inside the pipeline
PipeWaitStep ==
    /\ pc = "waiting"
    /\ WfoStep
    /\ UNCHANGED <<ledgerVars, storeVars, batchVars, pipeVars, hist, ev>>
    /\ UNCHANGED <<chatVars, convVars>>

\* line 240 and the finally clause: return True, display_name
PipeReturn ==
    /\ pc = "waiting"
    /\ wfo_pc = "returned"
    /\ pc' = "ended"
    /\ wfo_pc' = "idle"
    /\ result' = [kind |-> "return", ok |-> TRUE, value |-> display_name]
    /\ disk' = Finally(disk, tmp_path, md_path)
    /\ elapsed' = 0
    /\ slept' = FALSE
    /\ fetched' = FALSE
    /\ UNCHANGED <<timeout, operation, raised, hist>>
    /\ UNCHANGED <<uploaded_file, tmp_path, md_path, converted_content, display_name,
                   upload_path, mime_type, file_obj, import_operation, nInvocations>>
    /\ UNCHANGED <<ledgerVars, storeVars, batchVars, ev>>
    /\ UNCHANGED <<chatVars, convVars>>

\* lines 242-248: the error wait_for_operation raised is caught
PipeWaitRaised ==
    /\ pc = "waiting"
    /\ wfo_pc = "raised"
    /\ wfo_pc' = "idle"
    /\ PipeFail(IF raised.type = "TimeoutError" THEN "timeout" ELSE "poll",
                raised.type, disk, md_path, None)
    /\ elapsed' = 0
    /\ slept' = FALSE
    /\ fetched' = FALSE
    /\ UNCHANGED <<timeout, operation, raised>>
    /\ UNCHANGED <<uploaded_file, tmp_path, md_path, converted_content, display_name,
                   upload_path, mime_type, file_obj, import_operation, nInvocations>>
    /\ UNCHANGED <<ledgerVars, storeVars, batchVars, ev>>
    /\ UNCHANGED <<chatVars, convVars>>

PipeStep ==
    \/ Stage \/ Convert \/ WriteMd \/ Upload \/ Delay \/ Import \/ WaitCall
    \/ PipeWaitStep \/ PipeReturn \/ PipeWaitRaised

(***************************************************************************)
(* upload_and_import_file called on its own, file after file.              *)
(***************************************************************************)
PipeCall(name, method) ==
    /\ pc \in {"idle", "ended"}
    /\ nInvocations < MaxCalls
    /\ PipeEnter(name)
    /\ preprocess_method' = method
    /\ store_name' = "s1"
    /\ hist' = NoHist
    /\ ev' = [op |-> "upload_and_import_file"]
    /\ UNCHANGED <<ledgerVars, remoteStores, createdStores, current_store, batch_pc,
                   uploaded_files, idx, success_files, failed_files>>
    /\ UNCHANGED <<chatVars, convVars>>

NextPipeline ==
    \/ \E name \in UploadNames, method \in Methods : PipeCall(name, method)
    \/ PipeStep

SpecPipeline == Init /\ [][NextPipeline]_vars


\* C1: once a call of upload_and_import_file has ended, returned or raised,
\* no staged blob it created - the original-suffix temporary file and the
\* .md file - exists on disk, whichever step failed.
StagedBlobsRemoved == pc = "ended" => hist.staged \cap disk = {}

\* C6: a failure at any step of the pipeline never leaves
\* upload_and_import_file as an exception: the call returns (False, reason).
FailureNeverPropagates ==
    (pc = "ended" /\ hist.failed_step # None)
        => (result.kind = "return" /\ ~result.ok)

\* C7: when the import operation ended in the failed state,
\* upload_and_import_file returns (False, reason), never success.
FailedImportReportsFailure ==
    (pc = "ended" /\ operation.done /\ operation.error)
        => (result.kind = "return" /\ ~result.ok)

IsPrefix(a, b) == Len(a) <= Len(b) /\ a = SubSeq(b, 1, Len(a))

\* C8: the external steps of one call happen in the order upload, delay,
\* import request, polling; import is requested only with the file handle the
\* upload returned, polling starts only with the operation the import request
\* returned, and (True, display_name) is returned only after all four steps
\* and after the operation was observed done - never while it is pending and
\* never after a timeout.
ExternalStepsInOrder ==
    /\ IsPrefix(hist.calls, <<"upload", "delay", "import", "poll">>)
    /\ Len(hist.calls) >= 3 => file_obj # None
    /\ Len(hist.calls) = 4 => import_operation # NoOperation
    /\ wfo_pc # "idle" => Len(hist.calls) = 4
    /\ (pc = "ended" /\ result.ok) =>
           /\ hist.calls = <<"upload", "delay", "import", "poll">>
           /\ result.value = display_name
           /\ operation.done
           /\ raised = NoError

\* a call returned success for an operation that was pending when the import
\* request returned and was seen done by a later poll
ExternalStepsWitness ==
    /\ pc = "ended" /\ result.ok
    /\ ~import_operation.done /\ operation.done
    /\ hist.calls = <<"upload", "delay", "import", "poll">>


(***************************************************************************)
(* The session: the sidebar, the upload button with its batch loop, and    *)
(* the two store deletion buttons.                                         *)
(***************************************************************************)
\* the files selected in the uploader: 1..MaxFiles of them, in any order
RECURSIVE FileListsUpTo(_)
FileListsUpTo(n) ==
    IF n = 0 THEN {<<>>}
    ELSE LET shorter == FileListsUpTo(n - 1)
         IN  shorter \cup {Append(l, x) : l \in shorter, x \in UploadNames}

\* lines 358-386: the sidebar lists the stores and sets the current store
SelectStore ==
    /\ batch_pc = "idle"
    /\ \E s \in (IF remoteStores = {} THEN {None} ELSE remoteStores \cup {None}) :
        /\ s # current_store
        /\ current_store' = s
    /\ ev' = [op |-> "select_store"]
    /\ UNCHANGED <<ledgerVars, remoteStores, createdStores, preprocess_method,
                   batchVars, pipeVars, waitVars, hist>>
    /\ UNCHANGED <<chatVars, convVars>>

\* lines 348-351: the radio that selects the conversion engine of digital PDFs
SelectMethod ==
    /\ batch_pc = "idle"
    /\ \E m \in Methods :
        /\ m # preprocess_method
        /\ preprocess_method' = m
    /\ ev' = [op |-> "select_method"]
    /\ UNCHANGED <<ledgerVars, remoteStores, createdStores, current_store,
                   batchVars, pipeVars, waitVars, hist>>
    /\ UNCHANGED <<chatVars, convVars>>

\* type=[...] of st.file_uploader, as suffixes; the widget compares the
\* lower-cased extension of the file name
file_uploader_types == {".pdf", ".xlsx", ".xls", ".txt", ".md", ".csv", ".docx"}

FileUploaderAccepts(name) == Suffix(name) \in file_uploader_types

\* the files an operator may try to hand to the uploader
OfferedNames == UploadNames \cup {"e.xlsm", "i.exe"}

\* lines 534-538: the uploader refuses a file whose type is not in its list;
\* the selection and the rest of the session stay as they are
FileUploaderReject(name) ==
    /\ batch_pc = "idle"
    /\ ~FileUploaderAccepts(name)
    /\ ev' = [op |-> "file_uploader_rejected", name |-> name]
    /\ UNCHANGED <<ledgerVars, storeVars, batchVars, pipeVars, waitVars, hist>>
    /\ UNCHANGED <<chatVars, convVars>>

\* lines 545-563: the upload button; the store is the current one or a new one
BatchStart(files) ==
    /\ batch_pc = "idle"
    /\ files # <<>>
    /\ \A i \in DOMAIN files : FileUploaderAccepts(files[i])
    /\ nInvocations + Len(files) <= MaxInvocations
    /\ \/ /\ IF current_store # None
             THEN /\ store_name' = current_store
                  /\ UNCHANGED <<remoteStores, createdStores, current_store>>
             ELSE /\ createdStores # StoreIds
                  /\ store_name' = CHOOSE s \in StoreIds \ createdStores : TRUE
                  /\ remoteStores' = remoteStores \cup {store_name'}
                  /\ createdStores' = createdStores \cup {store_name'}
                  /\ current_store' = store_name'
          /\ batch_pc' = "loop"
          /\ uploaded_files' = files
          /\ idx' = 1
          /\ success_files' = <<>>
          /\ failed_files' = <<>>
          /\ hist' = [NoHist EXCEPT !.before = get_file_list(configFile, store_name')]
          /\ ev' = [op |-> "batch_running"]
       \/ \* client.file_search_stores.create raises: line 599
          /\ current_store = None
          /\ ev' = [op |-> "batch_error"]
          /\ UNCHANGED <<remoteStores, createdStores, current_store, batchVars, hist>>
    /\ UNCHANGED <<ledgerVars, preprocess_method, pipeVars, waitVars>>
    /\ UNCHANGED <<chatVars, convVars>>

\* lines 565-575: the loop calls upload_and_import_file for the next file
BatchCall ==
    /\ batch_pc = "loop"
    /\ pc = "idle"
    /\ idx <= Len(uploaded_files)
    /\ PipeEnter(uploaded_files[idx])
    /\ hist' = [hist EXCEPT !.staged = {}, !.calls = <<>>, !.failed_step = None,
                            !.converter = None, !.probe = NoProbe]
    /\ UNCHANGED <<ledgerVars, storeVars, batchVars, ev>>
    /\ UNCHANGED <<chatVars, convVars>>

\* the record of a batch that ended
BatchEvent(aborted, hst) ==
    [op |-> "batch", store |-> store_name, n |-> Len(uploaded_files),
     aborted |-> aborted, before |-> hst.before,
     success |-> success_files, failed |-> failed_files,
     convFailures |-> hst.convFailures, otherFailures |-> hst.otherFailures]

\* the locals of the upload button's handler outside a run of it
BatchLocalsFree ==
    /\ batch_pc' = "idle"
    /\ uploaded_files' = <<>>
    /\ idx' = 1
    /\ success_files' = <<>>
    /\ failed_files' = <<>>
    /\ store_name' = None
    /\ hist' = NoHist

\* lines 577-582, and line 599 for an error that left upload_and_import_file
BatchResult ==
    /\ batch_pc = "loop"
    /\ pc = "ended"
    /\ pc' = "idle"
    /\ uploaded_file' = None
    /\ PipeLocalsFree
    /\ LET counted == [NoHist EXCEPT
               !.before = hist.before,
               !.convFailures = hist.convFailures +
                   (IF hist.converter # None /\ converted_content = None THEN 1 ELSE 0),
               !.otherFailures = hist.otherFailures +
                   (IF hist.failed_step # None THEN 1 ELSE 0)]
       IN  IF result.kind = "raise"
           THEN /\ BatchLocalsFree
                /\ ev' = BatchEvent(TRUE, counted)
           ELSE /\ idx' = idx + 1
                /\ hist' = counted
                /\ IF result.ok
                   THEN /\ success_files' = Append(success_files, result.value)
                        /\ UNCHANGED failed_files
                   ELSE /\ failed_files' =
                               Append(failed_files, uploaded_file \o ": " \o result.value)
                        /\ UNCHANGED success_files
                /\ UNCHANGED <<batch_pc, uploaded_files, store_name, ev>>
    /\ UNCHANGED <<nInvocations, disk>>
    /\ UNCHANGED <<ledgerVars, storeVars>>
    /\ UNCHANGED <<chatVars, convVars>>

\* lines 584-597: the names of the files that succeeded go to the ledger
BatchFinish ==
    /\ batch_pc = "loop"
    /\ pc = "idle"
    /\ idx > Len(uploaded_files)
    /\ IF success_files # <<>>
       THEN LET existing_files == get_file_list(configFile, store_name)
                all_files == existing_files \o success_files
            IN  configFile' = save_file_list(configFile, store_name, all_files)
       ELSE UNCHANGED configFile
    /\ ev' = BatchEvent(FALSE, hist)
    /\ BatchLocalsFree
    /\ UNCHANGED <<got, storeVars, pipeVars, waitVars>>
    /\ UNCHANGED <<chatVars, convVars>>

\* the remote deletion and the ledger deletion of both delete buttons
DeleteStore(s, button) ==
    /\ batch_pc = "idle"
    /\ \/ /\ remoteStores' = remoteStores \ {s}
          /\ configFile' = delete_file_list(configFile, s)
          /\ current_store' = IF current_store = s THEN None ELSE current_store
          /\ ev' = [op |-> "delete_store", store |-> s, button |-> button,
                    remote |-> "deleted", had |-> get_file_list(configFile, s)]
       \/ \* client.file_search_stores.delete raises: lines 624 and 654
          /\ ev' = [op |-> "delete_store", store |-> s, button |-> button,
                    remote |-> "raised", had |-> get_file_list(configFile, s)]
          /\ UNCHANGED <<remoteStores, configFile, current_store>>
    /\ UNCHANGED <<got, createdStores, preprocess_method, batchVars, pipeVars,
                   waitVars, hist>>
    /\ UNCHANGED <<chatVars, convVars>>

\* lines 612-625: the button that deletes the current store
DeleteCurrentStore ==
    /\ current_store # None
    /\ DeleteStore(current_store, "current")

\* lines 644-655: the delete button of a store in the list of all stores
DeleteListedStore(s) ==
    /\ s \in remoteStores
    /\ DeleteStore(s, "listed")

\* the import operation is done after at most MaxPending pending polls
PendingBounded == operation.done \/ elapsed < PollInterval * (MaxPending + 1)

Next ==
    \/ SelectStore
    \/ SelectMethod
    \/ \E name \in OfferedNames : FileUploaderReject(name)
    \/ \E files \in FileListsUpTo(MaxFiles) : BatchStart(files)
    \/ BatchCall
    \/ Stage \/ Convert \/ WriteMd \/ Upload \/ Delay \/ Import \/ WaitCall
    \/ PipeWaitStep /\ (wfo_pc' = "test" => PendingBounded')
    \/ PipeReturn \/ PipeWaitRaised
    \/ BatchResult
    \/ BatchFinish
    \/ DeleteCurrentStore
    \/ \E s \in StoreIds : DeleteListedStore(s)

Spec == Init /\ [][Next]_vars

\* C14: the uploader accepts exactly the types pdf, xlsx, xls, xlsm, txt, md,
\* csv and docx: no file of one of these types is refused - so a workbook of
\* each spreadsheet type xlsx, xls, xlsm can reach the pipeline - and every
\* file of a batch is of one of these types.
UploaderAcceptsListedTypes ==
    LET listed == {".pdf", ".xlsx", ".xls", ".xlsm", ".txt", ".md", ".csv", ".docx"}
    IN  /\ ev.op = "file_uploader_rejected" => Suffix(ev.name) \notin listed
        /\ \A i \in DOMAIN uploaded_files : Suffix(uploaded_files[i]) \in listed

\* C2: a batch of N files of which exactly K fail conversion, no other step
\* failing, processes all N files and ends with N-K entries in success_files
\* and K entries in failed_files.
ConversionFailuresCounted ==
    (ev.op = "batch" /\ ev.otherFailures = 0) =>
        /\ Len(ev.success) + Len(ev.failed) = ev.n
        /\ Len(ev.success) = ev.n - ev.convFailures
        /\ Len(ev.failed) = ev.convFailures

\* C5: after either delete button was pressed for store s, the ledger has no
\* entry for s and get_file_list(s) is empty, whether the remote deletion
\* succeeded or raised.
DeletedStoreLeavesLedger ==
    ev.op = "delete_store" =>
        /\ ~DictHas(load_config(configFile), ev.store)
        /\ get_file_list(configFile, ev.store) = <<>>

\* C9: after each batch the ledger list of the store is the list before the
\* batch followed by the display names of the files of the batch that
\* succeeded, in upload order, duplicates kept.
LedgerGrowsBySuccesses ==
    ev.op = "batch" =>
        get_file_list(configFile, ev.store) = ev.before \o ev.success


(***************************************************************************)
(* upload_and_import_file called with a file of every type the pipeline    *)
(* distinguishes; the import operation is done after at most MaxPending    *)
(* pending polls.                                                          *)
(***************************************************************************)
IngestNames == UploadNames \cup {"d.xls", "e.xlsm", "f.md", "g.csv", "H.DOCX"}

NextIngest ==
    \/ \E name \in IngestNames, method \in Methods : PipeCall(name, method)
    \/ Stage \/ Convert \/ WriteMd \/ Upload \/ Delay \/ Import \/ WaitCall
    \/ PipeWaitStep /\ (wfo_pc' = "test" => PendingBounded')
    \/ PipeReturn \/ PipeWaitRaised

SpecIngest == Init /\ [][NextIngest]_vars

\* C11: once the conversion step of a call has run, the converter that ran
\* is the one the policy names: the spreadsheet converter for .xlsx, .xls
\* and .xlsm; the vision converter for a PDF whose probed text is shorter
\* than 100; for a PDF whose probed text has length 100 or more the one
\* converter the operator's flag names, Docling or pymupdf4llm; and for every
\* other type no converter, the original blob going up unrenamed as
\* application/octet-stream.
SelectionFollowsPolicy ==
    LET suffix == Suffix(uploaded_file)
        probed == hist.probe.ran /\ ~hist.probe.raised
    IN  (pc \notin {"idle", "stage", "convert"} /\ hist.failed_step # "stage") =>
            /\ suffix \in {".xlsx", ".xls", ".xlsm"} => hist.converter = "excel"
            /\ suffix = ".pdf" => hist.probe.ran
            /\ (suffix = ".pdf" /\ probed /\ hist.probe.len < 100)
                   => hist.converter = "vision"
            /\ (suffix = ".pdf" /\ probed /\ hist.probe.len >= 100)
                   => /\ preprocess_method = "Docling" => hist.converter = "docling"
                      /\ preprocess_method # "Docling" => hist.converter = "pymupdf4llm"
            /\ suffix \in {".txt", ".md", ".csv", ".docx"} =>
                   /\ hist.converter = None
                   /\ converted_content = None
                   /\ pc # "write_md" =>
                          /\ upload_path = tmp_path
                          /\ mime_type = "application/octet-stream"

\* a digital PDF went through Docling under the operator's flag and was
\* imported, and the text probed was exactly 100 long
SelectionWitness ==
    /\ pc = "ended" /\ result.ok
    /\ Suffix(uploaded_file) = ".pdf"
    /\ hist.probe.ran /\ ~hist.probe.raised /\ hist.probe.len = 100
    /\ preprocess_method = "Docling" /\ hist.converter = "docling"
    /\ mime_type = "text/markdown"

\* C12: the display name of an uploaded blob tells the path taken: it
\* carries an annotation exactly when the blob is the converted markdown
\* sent as text/markdown, and is the bare file name when the original bytes
\* go up as application/octet-stream, a failed or empty conversion included.
DisplayNameTellsPath ==
    "upload" \in {hist.calls[i] : i \in DOMAIN hist.calls} =>
        /\ (display_name # uploaded_file)
               <=> (mime_type = "text/markdown" /\ upload_path = md_path)
        /\ mime_type = "application/octet-stream" => display_name = uploaded_file

\* C13: when the probe of a PDF raises, the digital path is taken: the
\* converter that runs is the one the operator's flag names, never the
\* vision converter, and the call goes on to the next step - no failure is
\* recorded for classification or conversion.
ProbeFailureTakesDigitalPath ==
    (hist.probe.ran /\ hist.probe.raised) =>
        /\ hist.converter # "vision"
        /\ hist.converter = (IF preprocess_method = "Docling"
                             THEN "docling" ELSE "pymupdf4llm")
        /\ display_name = uploaded_file \o " (markdown-converted)"
        /\ pc \notin {"idle", "stage", "convert"}
        /\ pc = "write_md" => (result = NoResult /\ hist.failed_step = None)
        /\ hist.failed_step \in {None, "write_md", "upload", "import", "timeout", "poll"}

\* a PDF whose probe raised was converted by pymupdf4llm and imported
ProbeFailureWitness ==
    /\ hist.probe.ran /\ hist.probe.raised
    /\ pc = "ended" /\ result.ok
    /\ hist.converter = "pymupdf4llm"
    /\ mime_type = "text/markdown"


(***************************************************************************)
(* convert_excel_to_markdown(file_path).  xls is what pd.read_excel        *)
(* returns for sheet_name=None: the sheets in workbook order, each with    *)
(* its name and the shape of its DataFrame.  The first row of a sheet is   *)
(* the header, so a sheet of one row has columns and no data rows.  The    *)
(* text is modelled line by line.                                          *)
(***************************************************************************)
SheetNames == {"S1", "S2", "S3"}

\* the shapes of a DataFrame: a blank sheet, a header without data rows,
\* and 1..MaxRows data rows
Shapes ==
    {[rows |-> 0, cols |-> 0]} \cup {[rows |-> r, cols |-> 1] : r \in 0..MaxRows}

\* the workbooks of 1..n sheets; sheet names are unique in a workbook
RECURSIVE Workbooks(_)
Workbooks(n) ==
    IF n = 0 THEN {<<>>}
    ELSE LET shorter == Workbooks(n - 1)
         IN  shorter \cup
             {Append(w, [sheet_name |-> nm, df |-> sh]) :
                 w \in shorter, nm \in SheetNames, sh \in Shapes}

UniqueNames(w) ==
    \A i, j \in DOMAIN w : w[i].sheet_name = w[j].sheet_name => i = j

\* df.empty: an axis of length 0
DfEmpty(df) == df.rows = 0 \/ df.cols = 0

Line(kind, text) == [kind |-> kind, text |-> text]

\* df.fillna("").to_markdown(index=False): the header line, the separator
\* line and one line per data row, each starting with a pipe
RECURSIVE TableRows(_)
TableRows(n) == IF n = 0 THEN <<>> ELSE Append(TableRows(n - 1), Line("table", "| |"))

to_markdown(df) ==
    <<Line("table", "| column |"), Line("table", "|:--|")>> \o TableRows(df.rows)

\* text_output += piece, on lines: the first line of the piece continues
\* the last line of the text
AddText(lines, piece) ==
    IF lines = <<>> THEN piece
    ELSE IF piece = <<>> THEN lines
    ELSE IF lines[Len(lines)].kind = "blank"
         THEN SubSeq(lines, 1, Len(lines) - 1) \o piece
    ELSE IF piece[1].kind = "blank"
         THEN lines \o Tail(piece)
    ELSE SubSeq(lines, 1, Len(lines) - 1)
             \o <<Line(lines[Len(lines)].kind,
                        lines[Len(lines)].text \o piece[1].text)>>
             \o Tail(piece)

\* f"\n\n## 엑셀 시트: {sheet_name}\n\n": the heading reads "Excel sheet: "
Heading(sheet_name) ==
    <<Line("blank", ""), Line("blank", ""),
      Line("h2", "## Excel sheet: " \o sheet_name),
      Line("blank", ""), Line("blank", "")>>

\* a loop that writes a heading and a table for every sheet
RECURSIVE ExcelLoopNoSkip(_, _)
ExcelLoopNoSkip(w, out) ==
    IF w = <<>> THEN out
    ELSE ExcelLoopNoSkip(Tail(w),
             AddText(AddText(out, Heading(w[1].sheet_name)), to_markdown(w[1].df)))

\* lines 154-158: for sheet_name, df in xls.items()
RECURSIVE ExcelLoop(_, _)
ExcelLoop(w, out) ==
    IF w = <<>> THEN out
    ELSE IF DfEmpty(w[1].df) THEN ExcelLoop(Tail(w), out)
    ELSE ExcelLoop(Tail(w),
             AddText(AddText(out, Heading(w[1].sheet_name)), to_markdown(w[1].df)))

\* the call: the text, or None when read_excel or to_markdown raised
ExcelConvert ==
    /\ text_output = NoText
    /\ \/ text_output' = [ret |-> "text", lines |-> ExcelLoop(xls, <<>>)]
       \/ text_output' = [ret |-> "None", lines |-> <<>>]
    /\ ev' = [op |-> "convert_excel_to_markdown"]
    /\ UNCHANGED <<xls, images, page, all_content, vision_pc, vision_out, vision_log>>
    /\ UNCHANGED <<ledgerVars, storeVars, batchVars, pipeVars, waitVars, hist, chatVars>>

InitExcel ==
    /\ InitLedger /\ InitStores /\ InitBatch /\ InitPipe /\ InitWaitIdle
    /\ InitChat /\ InitVisionIdle
    /\ hist = NoHist
    /\ ev = [op |-> "start"]
    /\ xls \in {w \in Workbooks(MaxSheets) : w # <<>> /\ UniqueNames(w)}
    /\ text_output = NoText

NextExcel == ExcelConvert

SpecExcel == InitExcel /\ [][NextExcel]_vars

\* the texts of the level-2 headings of a text, in order
RECURSIVE Level2Headings(_)
Level2Headings(lines) ==
    IF lines = <<>> THEN <<>>
    ELSE (IF lines[1].kind = "h2" THEN <<lines[1].text>> ELSE <<>>)
             \o Level2Headings(Tail(lines))

\* the headings expected for the sheets that have data rows, in sheet order
RECURSIVE ExpectedHeadings(_)
ExpectedHeadings(w) ==
    IF w = <<>> THEN <<>>
    ELSE (IF w[1].df.rows > 0 /\ w[1].df.cols > 0
          THEN <<"## Excel sheet: " \o w[1].sheet_name>> ELSE <<>>)
             \o ExpectedHeadings(Tail(w))

Prompts == {"q1", "q2"}

Captions == {"answer visualization", "context visualization"}

Turn(role, text) == [role |-> role, text |-> text]

Last(log) == log[Len(log)]

\* a chat input that puts the new turn in front of the log
UserPromptFirst(prompt) ==
    /\ batch_pc = "idle"
    /\ current_store # None
    /\ Len(history) < MaxTurns
    /\ history' = <<Turn("user", prompt)>> \o history
    /\ ev' = [op |-> "chat_input"]
    /\ UNCHANGED <<ledgerVars, storeVars, batchVars, pipeVars, waitVars, hist, convVars>>

\* lines 469-474: st.chat_input appends the user turn
UserPrompt(prompt) ==
    /\ batch_pc = "idle"
    /\ current_store # None
    /\ Len(history) < MaxTurns
    /\ history' = Append(history, Turn("user", prompt))
    /\ ev' = [op |-> "chat_input"]
    /\ UNCHANGED <<ledgerVars, storeVars, batchVars, pipeVars, waitVars, hist, convVars>>

\* an answer that is generated whenever the log is not empty
AnswerDueAlways == history # <<>>

\* line 477: the last turn is a user turn
AnswerDue == history # <<>> /\ Last(history).role = "user"

\* lines 477-523: the answer is generated when the last turn is a user turn;
\* it is appended when the stream ended, nothing is when the call raised
GenerateAnswer ==
    /\ batch_pc = "idle"
    /\ current_store # None
    /\ AnswerDue
    /\ \/ /\ Len(history) < MaxTurns
          /\ history' = Append(history, Turn("model", "full_text"))
          /\ ev' = [op |-> "generate_answer", ok |-> TRUE, n |-> Len(history)]
       \/ /\ ev' = [op |-> "generate_answer", ok |-> FALSE, n |-> Len(history)]
          /\ UNCHANGED history
    /\ UNCHANGED <<ledgerVars, storeVars, batchVars, pipeVars, waitVars, hist, convVars>>

\* line 438: the visualization buttons are shown after a model turn
VisualizeOffered == history # <<>> /\ Last(history).role = "model"

\* lines 443-466: either button; generate_visualization returns the image
\* turn or None, and only an image turn is appended
Visualize(caption) ==
    /\ batch_pc = "idle"
    /\ current_store # None
    /\ VisualizeOffered
    /\ \/ /\ Len(history) < MaxTurns
          /\ history' = Append(history, Turn("image", caption))
          /\ ev' = [op |-> "visualize", ok |-> TRUE, n |-> Len(history)]
       \/ /\ ev' = [op |-> "visualize", ok |-> FALSE, n |-> Len(history)]
          /\ UNCHANGED history
    /\ UNCHANGED <<ledgerVars, storeVars, batchVars, pipeVars, waitVars, hist, convVars>>

\* lines 392-394: the clear button of the sidebar
ClearHistory ==
    /\ batch_pc = "idle"
    /\ history' = <<>>
    /\ ev' = [op |-> "clear_history"]
    /\ UNCHANGED <<ledgerVars, storeVars, batchVars, pipeVars, waitVars, hist, convVars>>

\* a chat session: the chat, the sidebar, uploads of one text file and the
\* store deletion buttons
NextChat ==
    \/ \E prompt \in Prompts : UserPrompt(prompt)
    \/ GenerateAnswer
    \/ \E caption \in Captions : Visualize(caption)
    \/ ClearHistory
    \/ SelectStore
    \/ nInvocations < MaxChatUploads /\ BatchStart(<<"c.txt">>)
    \/ BatchCall
    \/ Stage \/ Convert \/ WriteMd \/ Upload \/ Delay \/ Import \/ WaitCall
    \/ PipeWaitStep /\ (wfo_pc' = "test" => PendingBounded')
    \/ PipeReturn \/ PipeWaitRaised
    \/ BatchResult
    \/ BatchFinish
    \/ DeleteCurrentStore
    \/ \E s \in StoreIds : DeleteListedStore(s)

SpecChat == Init /\ [][NextChat]_vars

\* C16 as stated: whatever the session does - prompt, answer,
\* visualization, clearing the conversation, store selection, upload,
\* deletion - the log before the step is a prefix of the log after it.
LogAppendOnly == [][IsPrefix(history, history')]_vars

\* C16, amended: every step of the session other than clearing the
\* conversation leaves the earlier log as a prefix of the later log, and
\* clearing the conversation empties the log.
LogAppendOnlyUntilCleared ==
    [][\/ IsPrefix(history, history')
       \/ ev'.op = "clear_history" /\ history' = <<>>]_vars

\* a log of three turns has outlived an upload batch that ended after the
\* third turn was appended
LogOutlivesUploadWitness ==
    /\ Len(history) = 3
    /\ history[1] # history[3]
    /\ ev.op = "batch"

\* C18: a model turn is appended only after a user turn and an image turn
\* only after a model turn: in every log each model turn directly follows a
\* user turn, each image turn directly follows a model turn, and a log that
\* is not empty starts with a user turn; a generation or visualization that
\* failed has appended nothing.
TurnsFollowTheirCause ==
    /\ \A i \in DOMAIN history :
           /\ history[i].role \in {"user", "model", "image"}
           /\ history[i].role = "model" => (i > 1 /\ history[i - 1].role = "user")
           /\ history[i].role = "image" => (i > 1 /\ history[i - 1].role = "model")
    /\ history # <<>> => history[1].role = "user"
    /\ (ev.op = "generate_answer" /\ ~ev.ok) =>
           (Len(history) = ev.n /\ Last(history).role = "user")
    /\ (ev.op = "visualize" /\ ~ev.ok) =>
           (Len(history) = ev.n /\ Last(history).role = "model")

\* a generation failed and left the log ending in the user turn it was to
\* answer, after an earlier question was answered
FailedGenerationWitness ==
    /\ ev.op = "generate_answer" /\ ~ev.ok
    /\ Len(history) = 3
    /\ history[2].role = "model" /\ history[3].role = "user"


(***************************************************************************)
(* convert_with_gemini_vision(client, pdf_path, model), one action per     *)
(* step; the call of the vision model is split into the request and its    *)
(* answer.  The text is modelled block by block: the heading of a page,    *)
(* the text the model answered for it, and the separator of the join.      *)
(***************************************************************************)
\* response.text
ResponseTexts == {"markdown 1", "markdown 2", ""}

Block(kind, n, text) == [kind |-> kind, page |-> n, text |-> text]

\* f"## 페이지 {i+1}\n\n{response.text}"
PageContent(n, text) == <<Block("h2", n, ""), Block("text", n, text)>>

\* "\n\n---\n\n".join(all_content)
RECURSIVE Join(_)
Join(contents) ==
    IF contents = <<>> THEN <<>>
    ELSE IF Len(contents) = 1 THEN contents[1]
    ELSE contents[1] \o <<Block("hr", 0, "")>> \o Join(Tail(contents))

\* a handler that returns what was converted before the failure
VisionFailPartial ==
    /\ vision_pc' = "returned"
    /\ vision_out' = [ret |-> "text", text |-> Join(all_content)]

\* lines 142-147: except ImportError / except Exception: return None
VisionFail ==
    /\ vision_pc' = "returned"
    /\ vision_out' = [ret |-> "None", text |-> <<>>]

\* lines 112-116: the pages are rendered, or the import or rendering raises
VisionRender ==
    /\ vision_pc = "start"
    /\ \/ \E n \in 0..MaxPages :
             /\ images' = [i \in 1..n |-> i]
             /\ vision_pc' = "loop"
             /\ UNCHANGED vision_out
       \/ /\ VisionFail
          /\ UNCHANGED images
    /\ all_content' = <<>>
    /\ page' = 1
    /\ UNCHANGED <<xls, text_output, vision_log>>
    /\ UNCHANGED <<ledgerVars, storeVars, batchVars, pipeVars, waitVars, hist, ev,
                   chatVars>>

\* lines 118-125: the next page is encoded and sent to the vision model
VisionRequest ==
    /\ vision_pc = "loop"
    /\ page <= Len(images)
    /\ \/ /\ vision_log' = Append(vision_log, Block("request", images[page], ""))
          /\ vision_pc' = "await"
          /\ UNCHANGED vision_out
       \/ \* img.save raises
          /\ VisionFail
          /\ UNCHANGED vision_log
    /\ UNCHANGED <<xls, text_output, images, page, all_content>>
    /\ UNCHANGED <<ledgerVars, storeVars, batchVars, pipeVars, waitVars, hist, ev,
                   chatVars>>

\* lines 125-137: generate_content returns or raises
VisionResponse ==
    /\ vision_pc = "await"
    /\ \/ \E text \in ResponseTexts :
             /\ vision_log' = Append(vision_log, Block("response", images[page], text))
             /\ all_content' = Append(all_content, PageContent(page, text))
             /\ page' = page + 1
             /\ vision_pc' = "loop"
             /\ UNCHANGED vision_out
       \/ /\ VisionFail
          /\ UNCHANGED <<vision_log, all_content, page>>
    /\ UNCHANGED <<xls, text_output, images>>
    /\ UNCHANGED <<ledgerVars, storeVars, batchVars, pipeVars, waitVars, hist, ev,
                   chatVars>>

\* line 139: the loop is over, the joined text is returned
VisionReturn ==
    /\ vision_pc = "loop"
    /\ page > Len(images)
    /\ vision_pc' = "returned"
    /\ vision_out' = [ret |-> "text", text |-> Join(all_content)]
    /\ UNCHANGED <<xls, text_output, images, page, all_content, vision_log>>
    /\ UNCHANGED <<ledgerVars, storeVars, batchVars, pipeVars, waitVars, hist, ev,
                   chatVars>>

InitVision ==
    /\ InitLedger /\ InitStores /\ InitBatch /\ InitPipe /\ InitWaitIdle
    /\ InitChat /\ InitExcelIdle
    /\ hist = NoHist
    /\ ev = [op |-> "convert_with_gemini_vision"]
    /\ images = <<>>
    /\ page = 1
    /\ all_content = <<>>
    /\ vision_pc = "start"
    /\ vision_out = NoVisionOut
    /\ vision_log = <<>>

NextVision == VisionRender \/ VisionRequest \/ VisionResponse \/ VisionReturn

SpecVision == InitVision /\ [][NextVision]_vars

\* C17: the vision model is called once per rendered page, in page order,
\* and the request for a page is sent only after the answer for the page
\* before it arrived; the function returns either the text of all pages -
\* for each page its heading and the answer received for it, the pages
\* separated by the rule - or None, and never a text of fewer pages.
VisionSequentialAllOrNothing ==
    /\ \A k \in DOMAIN vision_log :
           /\ vision_log[k].kind = (IF k % 2 = 1 THEN "request" ELSE "response")
           /\ vision_log[k].page = (k + 1) \div 2
    /\ Len(vision_log) <= 2 * Len(images)
    /\ vision_out.ret = "None" => vision_out.text = <<>>
    /\ vision_out.ret = "text" =>
           /\ Len(vision_log) = 2 * Len(images)
           /\ Len(vision_out.text) =
                  (IF images = <<>> THEN 0 ELSE 3 * Len(images) - 1)
           /\ \A n \in DOMAIN images :
                  /\ vision_out.text[3 * n - 2] = [kind |-> "h2", page |-> n, text |-> ""]
                  /\ vision_out.text[3 * n - 1] =
                         [kind |-> "text", page |-> n, text |-> vision_log[2 * n].text]
                  /\ n < Len(images) => vision_out.text[3 * n].kind = "hr"

\* the call for the second of two pages raised after the first page was
\* converted, and None was returned
VisionFailureWitness ==
    /\ vision_pc = "returned" /\ vision_out.ret = "None"
    /\ Len(images) = 2 /\ Len(all_content) = 1
    /\ Len(vision_log) = 3

=============================================================================
